---------------------------- MODULE Spec2Model ----------------------------
(***************************************************************************)
(* A model of konfig (src/konfig/__init__.py): the interpolating,          *)
(* type-coercing configuration reader with file extension.                 *)
(*                                                                         *)
(* Text is modelled at character level: a text is a sequence of            *)
(* one-character strings.  A typed value is a record with a tag t and the  *)
(* payload of that tag (n for int and bool, s for str, l for list).        *)
(* An operation that can raise returns an outcome [exc, val]: exc is the   *)
(* name of the exception, or "" when val is returned.                      *)
(***************************************************************************)
EXTENDS Integers, Sequences, FiniteSets, TLC

VARIABLES
    os_environ,   \* the process environment: name -> text
    fs,           \* the file system: path -> parsed raw document
    source,       \* the argument of Config(...): a stream or a path
    config,       \* the Config object under construction / constructed
    pc,           \* where the scenario stands
    exc,          \* the exception Config(...) raised, "" if none
    asked,        \* the last get: section, option, environment changes before it
    result,       \* the outcome of the last get
    loadenv,      \* history: os.environ when Config(...) was called
    value,        \* the typed value handed to _serialize
    changes       \* number of environment changes made after the load

vars == <<os_environ, fs, source, config, pc, exc, asked, result, loadenv,
          value, changes>>

---------------------------------------------------------------------------
(* Bounds of the model *)

\* texts are built from at most MaxPieces pieces
MaxPieces == 3
\* lists handed to _serialize have at most MaxListLen elements
MaxListLen == 2
\* environment changes applied after a load
MaxChanges == 2

---------------------------------------------------------------------------
(* Typed values and outcomes *)

Str(s) == [t |-> "str", n |-> 0, s |-> s, l |-> <<>>]
IntV(n) == [t |-> "int", n |-> n, s |-> <<>>, l |-> <<>>]
BoolV(b) == [t |-> "bool", n |-> IF b THEN 1 ELSE 0, s |-> <<>>, l |-> <<>>]
ListV(items) == [t |-> "list", n |-> 0, s |-> <<>>, l |-> items]

Return(v) == [exc |-> "", val |-> v]
Raise(e) == [exc |-> e, val |-> Str(<<>>)]
ReturnText(s) == [exc |-> "", text |-> s]
RaiseText(e) == [exc |-> e, text |-> <<>>]

\* a dict as a function; d[k] = v
Put(d, k, v) == [x \in DOMAIN d \cup {k} |-> IF x = k THEN v ELSE d[x]]
EmptyDict == [x \in {} |-> <<>>]

---------------------------------------------------------------------------
(* Python's str methods, on character sequences *)

Whitespace == {" ", "\n", "\t"}
Digits == <<"0", "1", "2", "3", "4", "5", "6", "7", "8", "9">>
UpperCase == <<"A", "B", "C", "D", "E", "F", "G", "H", "I", "J", "K", "L", "M",
               "N", "O", "P", "Q", "R", "S", "T", "U", "V", "W", "X", "Y", "Z">>
LowerCase == <<"a", "b", "c", "d", "e", "f", "g", "h", "i", "j", "k", "l", "m",
               "n", "o", "p", "q", "r", "s", "t", "u", "v", "w", "x", "y", "z">>

IsDigit(c) == \E i \in 1..10 : Digits[i] = c
DigitValue(c) == (CHOOSE i \in 1..10 : Digits[i] = c) - 1

RECURSIVE Concat(_)
Concat(ss) == IF ss = <<>> THEN <<>> ELSE Head(ss) \o Concat(Tail(ss))

\* s[i:] with a 1-based i
From(s, i) == SubSeq(s, i, Len(s))

Contains(s, c) == \E i \in 1..Len(s) : s[i] = c
\* s.find(c) + 1, 0 when absent
Find(s, c) == IF Contains(s, c)
              THEN CHOOSE i \in 1..Len(s) : s[i] = c /\ \A j \in 1..(i-1) : s[j] # c
              ELSE 0
\* s.rfind(c) + 1, 0 when absent
RFind(s, c) == IF Contains(s, c)
               THEN CHOOSE i \in 1..Len(s) : s[i] = c /\ \A j \in (i+1)..Len(s) : s[j] # c
               ELSE 0

RECURSIVE lstrip(_)
lstrip(s) == IF s # <<>> /\ s[1] \in Whitespace THEN lstrip(Tail(s)) ELSE s

RECURSIVE rstrip(_)
rstrip(s) == IF s # <<>> /\ s[Len(s)] \in Whitespace
             THEN rstrip(SubSeq(s, 1, Len(s) - 1)) ELSE s

strip(s) == lstrip(rstrip(s))

lower(s) == [i \in 1..Len(s) |->
               IF \E j \in 1..26 : UpperCase[j] = s[i]
               THEN LowerCase[CHOOSE j \in 1..26 : UpperCase[j] = s[i]]
               ELSE s[i]]

\* s.split(sep) for a one-character sep
RECURSIVE split(_, _)
split(s, sep) == IF Contains(s, sep)
                 THEN <<SubSeq(s, 1, Find(s, sep) - 1)>> \o split(From(s, Find(s, sep) + 1), sep)
                 ELSE <<s>>

\* sep.join(ss)
RECURSIVE join(_, _)
join(sep, ss) == IF ss = <<>> THEN <<>>
                 ELSE IF Len(ss) = 1 THEN ss[1]
                 ELSE ss[1] \o sep \o join(sep, Tail(ss))

\* s.replace('$', '$$')
RECURSIVE EscapeDollars(_)
EscapeDollars(s) == IF s = <<>> THEN <<>>
                    ELSE (IF s[1] = "$" THEN <<"$", "$">> ELSE <<s[1]>>) \o EscapeDollars(Tail(s))

AllDigits(s) == s # <<>> /\ \A i \in 1..Len(s) : IsDigit(s[i])

\* whether int(s) succeeds, for an s already stripped
IntParses(s) == IF s # <<>> /\ s[1] \in {"-", "+"} THEN AllDigits(Tail(s)) ELSE AllDigits(s)

RECURSIVE DigitsValue(_)
DigitsValue(s) == IF s = <<>> THEN 0
                  ELSE 10 * DigitsValue(SubSeq(s, 1, Len(s) - 1)) + DigitValue(s[Len(s)])

\* int(s) where IntParses(s)
IntOf(s) == IF s[1] = "-" THEN 0 - DigitsValue(Tail(s))
            ELSE IF s[1] = "+" THEN DigitsValue(Tail(s))
            ELSE DigitsValue(s)

RECURSIVE NatStr(_)
NatStr(n) == IF n < 10 THEN <<Digits[n + 1]>>
             ELSE NatStr(n \div 10) \o <<Digits[(n % 10) + 1]>>

\* str(n) for an int n
IntStr(n) == IF n < 0 THEN <<"-">> \o NatStr(0 - n) ELSE NatStr(n)

\* repr of a str without quotes, backslashes or control characters
StrRepr(s) == <<"'">> \o s \o <<"'">>

\* str(v) of a scalar; repr(v) of a list element
ScalarStr(v) == CASE v.t = "int" -> IntStr(v.n)
                  [] v.t = "bool" -> IF v.n = 1 THEN <<"T", "r", "u", "e">>
                                     ELSE <<"F", "a", "l", "s", "e">>
                  [] OTHER -> v.s
ScalarRepr(v) == IF v.t = "str" THEN StrRepr(v.s) ELSE ScalarStr(v)

\* str(v): of a list, "[" + ", ".join(repr(x)) + "]"
PyStr(v) == IF v.t = "list"
            THEN <<"[">> \o join(<<",", " ">>, [i \in 1..Len(v.l) |-> ScalarRepr(v.l[i])]) \o <<"]">>
            ELSE ScalarStr(v)

---------------------------------------------------------------------------
(* ExtendedEnvironmentInterpolation *)

\* _IS_NUMBER = re.compile('^-?[0-9].*'), matched at the start of the text
_IS_NUMBER(s) == \/ Len(s) >= 1 /\ IsDigit(s[1])
                 \/ Len(s) >= 2 /\ s[1] = "-" /\ IsDigit(s[2])

startswith(s, c) == s # <<>> /\ s[1] = c
endswith(s, c) == s # <<>> /\ s[Len(s)] = c

TrueText == <<"t", "r", "u", "e">>
FalseText == <<"f", "a", "l", "s", "e">>

\* _unserialize(value) for a text value
_unserialize(raw) ==
    LET v == strip(raw) IN
    IF _IS_NUMBER(v)
    THEN (IF IntParses(v) THEN IntV(IntOf(v)) ELSE Str(v))
    ELSE IF startswith(v, "\"") /\ endswith(v, "\"")
    THEN Str(SubSeq(v, 2, Len(v) - 1))
    ELSE IF lower(v) \in {TrueText, FalseText}
    THEN BoolV(lower(v) = TrueText)
    ELSE Str(v)

\* a list that keeps its empty elements
DropEmpty_Keep(xs) == xs

\* [x for x in xs if x != '']
RECURSIVE DropEmpty(_)
DropEmpty(xs) == IF xs = <<>> THEN <<>>
                 ELSE (IF Head(xs) = Str(<<>>) THEN <<>> ELSE <<Head(xs)>>) \o DropEmpty(Tail(xs))

\* the tail of before_get: the interpolated text to a typed value
Decode(res) ==
    IF Contains(res, "\n")
    THEN LET lines == split(res, "\n") IN
         ListV(DropEmpty([i \in 1..Len(lines) |-> _unserialize(lines[i])]))
    ELSE _unserialize(res)

\* a _serialize without its list branch: str(value) for a list
_serialize_Repr(v) ==
    CASE v.t = "bool" -> lower(PyStr(v))
      [] v.t = "int" -> PyStr(v)
      [] OTHER -> PyStr(v)

\* _serialize(value)
_serialize(v) ==
    CASE v.t = "bool" -> lower(PyStr(v))
      [] v.t = "int" -> PyStr(v)
      [] v.t = "list" ->
           strip(join(<<"\n">>, [i \in 1..Len(v.l) |-> <<" ", " ", " ", " ">> \o PyStr(v.l[i])]))
      [] OTHER -> PyStr(v)


---------------------------------------------------------------------------
(* configparser's ExtendedInterpolation, as the code uses it.  Names hold  *)
(* no ':' here, so a ${section:option} path is never taken.                *)

HERE == <<"H", "E", "R", "E">>
None == <<"None">>
DEFAULT == "DEFAULT"
extends == <<"e", "x", "t", "e", "n", "d", "s">>

\* os.path.dirname(p)
dirname(p) ==
    LET head == SubSeq(p, 1, RFind(p, "/")) IN
    IF head # <<>> /\ (\E i \in 1..Len(head) : head[i] # "/")
    THEN (LET RECURSIVE unslash(_)
              unslash(h) == IF h # <<>> /\ h[Len(h)] = "/"
                            THEN unslash(SubSeq(h, 1, Len(h) - 1)) ELSE h
          IN unslash(head))
    ELSE head

\* outcome o with text s put before its text
Prepend(s, o) == IF o.exc # "" THEN o ELSE ReturnText(s \o o.text)

\* a lenient lookup: an unknown name is left in the text as ${name}
Resolve_Lenient(name, map) ==
    IF name \in DOMAIN map THEN ReturnText(map[name])
    ELSE ReturnText(<<"$", "$", "{">> \o name \o <<"}">>)

\* v = map[opt] of the interpolation before_get delegates to: a name the
\* defaults lack raises InterpolationMissingOptionError
Resolve(name, map) ==
    IF name \in DOMAIN map THEN ReturnText(map[name])
    ELSE RaiseText("InterpolationMissingOptionError")

\* ExtendedInterpolation._interpolate_some: rest is scanned left to right;
\* map resolves the names of this level, items those of nested values
RECURSIVE _interpolate_some(_, _, _, _)
_interpolate_some(rest, map, items, depth) ==
    IF depth > 10 THEN RaiseText("InterpolationDepthError")
    ELSE IF rest = <<>> THEN ReturnText(<<>>)
    ELSE LET p == Find(rest, "$") IN
         IF p = 0 THEN ReturnText(rest)
         ELSE IF p > 1
         THEN Prepend(SubSeq(rest, 1, p - 1), _interpolate_some(From(rest, p), map, items, depth))
         ELSE LET c == IF Len(rest) >= 2 THEN rest[2] ELSE "" IN
              IF c = "$"
              THEN Prepend(<<"$">>, _interpolate_some(From(rest, 3), map, items, depth))
              ELSE IF c = "{"
              THEN LET close == Find(rest, "}") IN
                   IF close < 4 THEN RaiseText("InterpolationSyntaxError")
                   ELSE LET found == Resolve(SubSeq(rest, 3, close - 1), map) IN
                        IF found.exc # "" THEN found
                        ELSE LET v == found.text
                                 sub == IF Contains(v, "$")
                                        THEN _interpolate_some(v, items, items, depth + 1)
                                        ELSE ReturnText(v)
                             IN IF sub.exc # "" THEN sub
                                ELSE Prepend(sub.text,
                                             _interpolate_some(From(rest, close + 1), map, items, depth))
              ELSE RaiseText("InterpolationSyntaxError")

\* value.replace('$$', '')
RECURSIVE RemoveEscapes(_)
RemoveEscapes(s) ==
    IF s = <<>> THEN <<>>
    ELSE IF Len(s) >= 2 /\ s[1] = "$" /\ s[2] = "$" THEN RemoveEscapes(From(s, 3))
    ELSE <<s[1]>> \o RemoveEscapes(Tail(s))

\* _KEYCRE.sub('', value), _KEYCRE = \$\{([^}]+)\}
RECURSIVE RemoveKeys(_)
RemoveKeys(s) ==
    IF s = <<>> THEN <<>>
    ELSE IF Len(s) >= 2 /\ s[1] = "$" /\ s[2] = "{" /\ Find(s, "}") >= 4
    THEN RemoveKeys(From(s, Find(s, "}") + 1))
    ELSE <<s[1]>> \o RemoveKeys(Tail(s))

\* ExtendedInterpolation.before_set followed by _serialize, for a str value
before_set(v) ==
    IF Contains(RemoveKeys(RemoveEscapes(v)), "$") THEN RaiseText("ValueError")
    ELSE ReturnText(_serialize(Str(v)))

\* ExtendedEnvironmentInterpolation.__init__: the escaped copy of os.environ
Environment(environ) == [k \in DOMAIN environ |-> EscapeDollars(environ[k])]

\* defaults that re-read the process environment at every get
Defaults_Lazy(parser) ==
    Put(Environment(os_environ), HERE,
        IF parser.filename # None /\ parser.filename # <<>>
        THEN dirname(parser.filename)
        ELSE <<"$", "$", "{", "H", "E", "R", "E", "}">>)

\* defaults whose HERE ignores the parser's location
Defaults_NoLocation(parser) ==
    Put(parser.environment, HERE, <<"$", "$", "{", "H", "E", "R", "E", "}">>)

\* the defaults before_get hands to the interpolation: self.environment with HERE
Defaults(parser) ==
    Put(parser.environment, HERE,
        IF parser.filename # None /\ parser.filename # <<>>
        THEN dirname(parser.filename)
        ELSE <<"$", "$", "{", "H", "E", "R", "E", "}">>)

\* dict(parser.items(section, raw=True)): the section's options over the defaults
RawItems(parser, section) ==
    LET sect == IF section \in DOMAIN parser._sections THEN parser._sections[section]
                ELSE EmptyDict
    IN [k \in DOMAIN parser._defaults \cup DOMAIN sect |->
          IF k \in DOMAIN sect THEN sect[k] ELSE parser._defaults[k]]

\* the end of before_get, given what super().before_get did
Typed(res) == IF res.exc # "" THEN Raise(res.exc) ELSE Return(Decode(res.text))

\* ExtendedEnvironmentInterpolation.before_get
before_get(parser, section, option, raw) ==
    Typed(_interpolate_some(raw, Defaults(parser), RawItems(parser, section), 1))

---------------------------------------------------------------------------
(* ConfigParser, as Config uses it *)

has_section(parser, section) == section \in DOMAIN parser._sections
InParser(parser, section) == section = DEFAULT \/ has_section(parser, section)

has_option(parser, section, option) ==
    IF section = DEFAULT THEN option \in DOMAIN parser._defaults
    ELSE /\ has_section(parser, section)
         /\ option \in DOMAIN RawItems(parser, section)

\* value = d[option], then before_get; d is the section over the defaults
Lookup(parser, section, option, d) ==
    IF option \notin DOMAIN d THEN Raise("NoOptionError")
    ELSE before_get(parser, section, option, d[option])

\* ConfigParser.get(section, option)
get(parser, section, option) ==
    IF ~InParser(parser, section) THEN Raise("NoSectionError")
    ELSE Lookup(parser, section, option, RawItems(parser, section))

\* sectdict[option] = value, given what before_set did
Store(parser, section, option, stored) ==
    IF stored.exc # "" THEN [exc |-> stored.exc, cfg |-> parser]
    ELSE IF section = DEFAULT
    THEN [exc |-> "", cfg |-> [parser EXCEPT !._defaults = Put(@, option, stored.text)]]
    ELSE [exc |-> "",
          cfg |-> [parser EXCEPT !._sections[section] = Put(@, option, stored.text)]]

\* ConfigParser.set(section, option, value) for a str value
set(parser, section, option, v) ==
    Store(parser, section, option, IF v # <<>> THEN before_set(v) ELSE ReturnText(v))

add_section(parser, section) ==
    [parser EXCEPT !._sections = Put(@, section, EmptyDict)]

---------------------------------------------------------------------------
(* Config *)

foo == <<"f", "o", "o">>
two == <<"t", "w", "o">>

\* the order in which the files list their options and sections
OptionOrder == <<extends, foo, two>>
SectionOrder == <<"one", "three">>

KeysOf(d) == SelectSeq(OptionOrder, LAMBDA k : k \in DOMAIN d)

\* iterating a parser: the default section, then the sections
SectionsOf(parser) ==
    <<DEFAULT>> \o SelectSeq(SectionOrder, LAMBDA x : x \in DOMAIN parser._sections)

\* iterating parser[section]: its own options, then the defaults it lacks
OptionsOf(parser, section) ==
    IF section = DEFAULT THEN KeysOf(parser._defaults)
    ELSE KeysOf(parser._sections[section])
         \o SelectSeq(KeysOf(parser._defaults),
                      LAMBDA k : k \notin DOMAIN parser._sections[section])

EmptyDoc == [defaults |-> EmptyDict, sections |-> EmptyDict]

\* a parser built by ConfigParser(**self._configparser_kwargs())
NewParser(filename, environ) ==
    [filename |-> filename, _defaults |-> EmptyDict, _sections |-> EmptyDict,
     environment |-> Environment(environ)]

\* ConfigParser._read(fp, filename) into an empty parser: the raw document
Parsed(parser, doc) == [parser EXCEPT !._defaults = doc.defaults, !._sections = doc.sections]

Ok(parser) == [exc |-> "", cfg |-> parser]
Failed(e, parser) == [exc |-> e, cfg |-> parser]

\* os.path.isfile(filename)
isfile(fsys, filename) == filename \in DOMAIN fsys

\* parser.read([filename]): a file that cannot be opened is skipped
read(parser, fsys, filename) ==
    IF filename \in DOMAIN fsys THEN Parsed(parser, fsys[filename]) ELSE parser

\* self[section][option] = value: SectionProxy.__setitem__ accepts str only
SetItem(self, section, option, v) ==
    IF v.t # "str" THEN Failed("TypeError", self) ELSE set(self, section, option, v.s)

\* a merge that takes every option of the extension file
NotInSelf_Always(self, section, option) == TRUE

\* the guard of _extend: option not in self[section]
NotInSelf(self, section, option) == ~has_option(self, section, option)

\* what follows a step w of a loop: the exception, or the rest of the loop
Bind(w, K(_)) == IF w.exc # "" THEN w ELSE K(w.cfg)

\* self[section][option] = r, the outcome of parser[section][option]
StoreTyped(self, section, option, r) ==
    IF r.exc # "" THEN Failed(r.exc, self) ELSE SetItem(self, section, option, r.val)

\* if option not in self[section]: self[section][option] = parser[section][option]
MergeOption(self, parser, section, option) ==
    IF NotInSelf(self, section, option)
    THEN StoreTyped(self, section, option, get(parser, section, option))
    ELSE Ok(self)

\* for option in parser[section]: ...
RECURSIVE MergeOptions(_, _, _, _)
MergeOptions(self, parser, section, opts) ==
    IF opts = <<>> THEN Ok(self)
    ELSE Bind(MergeOption(self, parser, section, Head(opts)),
              LAMBDA c : MergeOptions(c, parser, section, Tail(opts)))

\* read_dict: value = str(value); self.set(section, key, value)
StoreStr(self, section, option, r) ==
    IF r.exc # "" THEN Failed(r.exc, self) ELSE set(self, section, option, PyStr(r.val))

\* read_dict({section: parser[section]}): every value goes through str()
RECURSIVE CopyOptions(_, _, _, _)
CopyOptions(self, parser, section, opts) ==
    IF opts = <<>> THEN Ok(self)
    ELSE Bind(StoreStr(self, section, Head(opts), get(parser, section, Head(opts))),
              LAMBDA c : CopyOptions(c, parser, section, Tail(opts)))

\* self[section] = parser[section] for a section self lacks
SetSection(self, parser, section) ==
    CopyOptions(add_section(self, section), parser, section, OptionsOf(parser, section))

\* if section in self: ... else: self[section] = parser[section]
MergeSection(self, parser, section) ==
    IF InParser(self, section)
    THEN MergeOptions(self, parser, section, OptionsOf(parser, section))
    ELSE SetSection(self, parser, section)

\* for section in parser: ...
RECURSIVE MergeSections(_, _, _)
MergeSections(self, parser, sections) ==
    IF sections = <<>> THEN Ok(self)
    ELSE Bind(MergeSection(self, parser, Head(sections)),
              LAMBDA c : MergeSections(c, parser, Tail(sections)))

\* the loop of _extend over the parser that read the file
Merge(self, parser) == MergeSections(self, parser, SectionsOf(parser))

\* Config._extend(filename)
_extend(self, filename, fsys, environ) ==
    IF ~isfile(fsys, filename) THEN Failed("IOError", self)
    ELSE Merge(self, read(NewParser(filename, environ), fsys, filename))

\* for file_ in extends: self._extend(file_)
RECURSIVE ExtendAll(_, _, _, _)
ExtendAll(self, files, fsys, environ) ==
    IF files = <<>> THEN Ok(self)
    ELSE Bind(_extend(self, Head(files), fsys, environ),
              LAMBDA c : ExtendAll(c, Tail(files), fsys, environ))

\* the list _read iterates: defaults() holds raw text, never a list
ExtendsList(defaults) == <<defaults[extends]>>

\* the second half of _read, given the parser after the first pass
Expand(first, fsys, environ) ==
    IF extends \in DOMAIN first._defaults
    THEN ExtendAll(first, ExtendsList(first._defaults), fsys, environ)
    ELSE Ok(first)

\* Config._read(fp, filename)
_read(self, doc, fsys, environ) == Expand(Parsed(self, doc), fsys, environ)

\* self.read(filename): ConfigParser.read() opens the file and calls _read
\* inside "try: ... except OSError: continue", so an IOError that _extend raises
\* while a path is being read is skipped like a file that cannot be opened;
\* read_file() has no such handler
ReadOutcome(kind, w) ==
    IF kind = "path" /\ w.exc = "IOError" THEN Ok(w.cfg) ELSE w

\* Config.__init__(filename): a path goes through read(), which skips a file it
\* cannot open; a stream goes through read_file()
Config(src, fsys, environ) ==
    IF src.kind = "path" /\ src.path \notin DOMAIN fsys
    THEN Ok(NewParser(src.path, environ))
    ELSE ReadOutcome(src.kind,
             _read(NewParser(IF src.kind = "path" THEN src.path ELSE None, environ),
                   IF src.kind = "path" THEN fsys[src.path] ELSE src.doc,
                   fsys, environ))

NoConfig == NewParser(None, EmptyDict)
NoValue == Str(<<"-", "n", "o", "n", "e", "-">>)
NoResult == Raise("-")
NotAsked == <<"-", <<>>, 0>>

---------------------------------------------------------------------------
(* Inputs *)

F == <<"F">>
T_bar == <<"b", "a", "r">>
T_baz == <<"b", "a", "z">>
T_mine == <<"m", "i", "n", "e">>
T_dflt == <<"d", "f", "l", "t">>
T_num == <<"-", "1", "2">>
T_quoted == <<"\"", "1", "2", "\"">>
T_lines == <<"1", "\n", "t", "w", "o">>
T_true == <<"t", "r", "u", "e">>
T_here == <<"$", "{", "H", "E", "R", "E", "}">>
T_env == <<"x", " ", "$", "{", "F", "}">>
T_var == <<"$", "{", "F", "}">>

PathP == <<"/", "p", "/", "c">>
PathE == <<"/", "d", "/", "e">>
PathF == <<"/", "d", "/", "f">>
PathN == <<"/", "n", "/", "n">>
PathEF == PathE \o <<"\n">> \o PathF

\* every dict with keys among keys and values among vals
MapsOver(keys, vals) == UNION {[S -> vals] : S \in SUBSET keys}
Only(k, v) == [x \in {k} |-> v]
Both(d, e) == [x \in DOMAIN d \cup DOMAIN e |-> IF x \in DOMAIN d THEN d[x] ELSE e[x]]

PVals == {T_bar, T_num, T_here, T_env}
EVals == {T_baz, T_num, T_quoted, T_lines, T_here}

\* what the primary may hold besides extends
PDocs ==
    {[defaults |-> d, sections |-> x] :
        d \in MapsOver({foo}, {T_bar}),
        x \in {EmptyDict} \cup
              {Only("one", Both(a, b)) : a \in MapsOver({foo}, PVals),
                                         b \in MapsOver({two}, {T_mine})}}

\* what the extension file may hold
EDocs ==
    {[defaults |-> d, sections |-> Both(a, b)] :
        d \in MapsOver({foo}, {T_dflt}),
        a \in {EmptyDict} \cup
              {Only("one", Both(x, y)) : x \in MapsOver({foo}, {T_baz}),
                                         y \in MapsOver({two}, EVals)},
        b \in {EmptyDict} \cup {Only("three", z) : z \in MapsOver({foo}, EVals)}}

\* the second extension file
FDoc == [defaults |-> EmptyDict, sections |-> Only("three", Only(two, T_bar))]

ExtendsChoices == {None, PathE, PathN, PathEF}

WithExtends(doc, e) ==
    IF e = None THEN doc ELSE [doc EXCEPT !.defaults = Put(@, extends, e)]

Stream(doc) == [kind |-> "stream", path |-> <<>>, doc |-> doc]
Path(p) == [kind |-> "path", path |-> p, doc |-> EmptyDoc]

\* the document the source holds, empty when there is none to read
Primary ==
    IF source.kind = "stream" THEN source.doc
    ELSE IF source.path \in DOMAIN fs THEN fs[source.path] ELSE EmptyDoc

Files(e) == Both(Only(PathE, e), Only(PathF, FDoc))

---------------------------------------------------------------------------
(* Scenario: load a document, then read it *)

Init ==
    /\ os_environ = Only(F, <<"s">>)
    /\ \E p \in PDocs, x \in ExtendsChoices :
         \E e \in (IF x = PathE THEN EDocs ELSE {EmptyDoc}) :
            \/ /\ source = Stream(WithExtends(p, x))
               /\ fs = Files(e)
            \/ /\ source = Path(PathP)
               /\ fs = Both(Only(PathP, WithExtends(p, x)), Files(e))
            \/ /\ source = Path(PathN)
               /\ p = EmptyDoc /\ x = None
               /\ fs = Files(e)
    /\ config = NoConfig
    /\ pc = "start"
    /\ exc = ""
    /\ asked = NotAsked
    /\ result = NoResult
    /\ loadenv = EmptyDict
    /\ value = NoValue
    /\ changes = 0

\* config = Config(source)
Constructed(r) ==
    /\ exc' = r.exc
    /\ pc' = IF r.exc = "" THEN "loaded" ELSE "raised"
    /\ config' = IF r.exc = "" THEN r.cfg ELSE NoConfig

Load ==
    /\ pc = "start"
    /\ Constructed(Config(source, fs, os_environ))
    /\ loadenv' = os_environ
    /\ UNCHANGED <<os_environ, fs, source, asked, result, value, changes>>

\* config.get(section, option); before_get leaves HERE in self.environment
Get(section, option) ==
    /\ pc = "loaded"
    /\ asked' = <<section, option, changes>>
    /\ result' = get(config, section, option)
    /\ config' = IF has_option(config, section, option)
                 THEN [config EXCEPT !.environment = Defaults(config)]
                 ELSE config
    /\ UNCHANGED <<os_environ, fs, source, pc, exc, loadenv, value, changes>>

AskedSections == {"one", "three"}
AskedOptions == {foo, two}

Next ==
    \/ Load
    \/ \E s \in AskedSections, o \in AskedOptions : Get(s, o)

Spec == Init /\ [][Next]_vars

---------------------------------------------------------------------------
(* Scenario: the environment changes after the load *)

EnvVals == {<<"s">>, <<"1", "2">>, <<"a", "$", "b">>}

EnvDoc == [defaults |-> EmptyDict, sections |-> Only("one", Only(two, T_env))]

InitEnv ==
    /\ os_environ \in MapsOver({F}, EnvVals)
    /\ \E v \in {T_env, T_var, T_bar}, x \in {None, PathE} :
         source = Stream(WithExtends([defaults |-> EmptyDict,
                                      sections |-> Only("one", Only(foo, v))], x))
    /\ fs = Files(EnvDoc)
    /\ config = NoConfig
    /\ pc = "start"
    /\ exc = ""
    /\ asked = NotAsked
    /\ result = NoResult
    /\ loadenv = EmptyDict
    /\ value = NoValue
    /\ changes = 0

\* os.environ[F] = v
Setenv ==
    /\ pc = "loaded"
    /\ changes < MaxChanges
    /\ \E v \in EnvVals : os_environ' = Put(os_environ, F, v)
    /\ changes' = changes + 1
    /\ UNCHANGED <<fs, source, config, pc, exc, asked, result, loadenv, value>>

\* del os.environ[F]
Unsetenv ==
    /\ pc = "loaded"
    /\ changes < MaxChanges
    /\ F \in DOMAIN os_environ
    /\ os_environ' = EmptyDict
    /\ changes' = changes + 1
    /\ UNCHANGED <<fs, source, config, pc, exc, asked, result, loadenv, value>>

NextEnv ==
    \/ Load
    \/ \E o \in AskedOptions : Get("one", o)
    \/ Setenv
    \/ Unsetenv

SpecEnv == InitEnv /\ [][NextEnv]_vars

---------------------------------------------------------------------------
(* Scenario: the codec, applied to texts and values drawn from bounded sets *)

N == <<"N">>

Pieces == {<<"1">>, <<"-">>, <<"a">>, <<"\"">>, <<" ">>, <<"\n">>,
           <<"T", "r", "u", "e">>, <<"$">>, <<"{", "F", "}">>, <<"{", "N", "}">>}

RECURSIVE TextsUpTo(_)
TextsUpTo(n) == IF n = 0 THEN {<<>>}
                ELSE TextsUpTo(n - 1) \cup {p \o t : p \in Pieces, t \in TextsUpTo(n - 1)}

Texts == TextsUpTo(MaxPieces)

\* texts the file parser can yield: no trailing blank, every line stripped
RawTexts == {t \in Texts : /\ rstrip(t) = t
                           /\ \A i \in 1..Len(split(t, "\n")) :
                                 strip(split(t, "\n")[i]) = split(t, "\n")[i]}

IntSamples == ((0 - 12)..12) \cup {0 - 100, 100}

ListScalars == {IntV(1), IntV(0 - 12), BoolV(TRUE), BoolV(FALSE),
                Str(<<"a">>), Str(<<>>), Str(<<"a", " ">>), Str(<<"\"", "a", "\"">>)}

RECURSIVE ListsUpTo(_)
ListsUpTo(n) == IF n = 0 THEN {<<>>}
                ELSE ListsUpTo(n - 1) \cup
                     {<<x>> \o l : x \in ListScalars, l \in ListsUpTo(n - 1)}

Values == {IntV(i) : i \in IntSamples} \cup {BoolV(TRUE), BoolV(FALSE)}
          \cup {Str(t) : t \in Texts} \cup {ListV(l) : l \in ListsUpTo(MaxListLen)}

OneFoo(raw) == [defaults |-> EmptyDict, sections |-> Only("one", Only(foo, raw))]

InitCodec ==
    /\ fs = EmptyDict
    /\ \/ \* the text to decode arrives through ${F}
          /\ os_environ \in {Only(F, t) : t \in Texts}
          /\ source = Stream(OneFoo(T_var))
          /\ value = NoValue
       \/ \* a raw text of the file is interpolated
          /\ os_environ = Only(F, <<"s">>)
          /\ source \in {Stream(OneFoo(t)) : t \in RawTexts}
          /\ value = NoValue
       \/ \* a value is to be written
          /\ os_environ = Only(F, <<"s">>)
          /\ source = Stream(OneFoo(<<>>))
          /\ value \in Values
    /\ config = Config(source, fs, os_environ).cfg
    /\ pc = IF value = NoValue THEN "loaded" ELSE "value"
    /\ exc = ""
    /\ asked = NotAsked
    /\ result = NoResult
    /\ loadenv = os_environ
    /\ changes = 0

\* the text _serialize(value) is stored as the option's raw text
Serialize ==
    /\ pc = "value"
    /\ config' = [config EXCEPT !._sections["one"] = Put(@, foo, _serialize(value))]
    /\ pc' = "loaded"
    /\ UNCHANGED <<os_environ, fs, source, exc, asked, result, loadenv, value, changes>>

NextCodec ==
    \/ Get("one", foo)
    \/ Serialize

SpecCodec == InitCodec /\ [][NextCodec]_vars

---------------------------------------------------------------------------
(* What the properties speak about *)

\* the primary as it stands before extension resolution
P0 == Parsed(NewParser(IF source.kind = "path" THEN source.path ELSE None, loadenv), Primary)

\* the raw text of the primary's extends option, None when it has none
ExtName == IF extends \in DOMAIN Primary.defaults THEN Primary.defaults[extends] ELSE None

\* the extension file read on its own
EParser == read(NewParser(PathE, loadenv), fs, PathE)

AllSections == {DEFAULT} \cup AskedSections
AllOptions == AskedOptions \cup {extends}

Got == pc = "loaded" /\ asked # NotAsked

---------------------------------------------------------------------------
(* Extension resolution *)

\* C1: an option the primary yields before resolution keeps the primary's raw
\* text through the merge of the extension file, and where the extension file
\* defines it too, get returns the primary's value, never the extension's.
C1_ExtensionPrecedence ==
    (pc = "loaded" /\ ExtName = PathE) =>
        /\ \A s \in AllSections, k \in AllOptions :
              has_option(P0, s, k) =>
                  /\ has_option(config, s, k)
                  /\ RawItems(config, s)[k] = RawItems(P0, s)[k]
        /\ (/\ asked # NotAsked
            /\ has_option(P0, asked[1], asked[2])
            /\ has_option(EParser, asked[1], asked[2]))
              => result = get(P0, asked[1], asked[2])

C1_Witness ==
    /\ Got /\ ExtName = PathE
    /\ asked[1] = "one" /\ asked[2] = foo
    /\ "one" \in DOMAIN Primary.sections
    /\ foo \in DOMAIN Primary.sections["one"]
    /\ "one" \in DOMAIN fs[PathE].sections
    /\ foo \in DOMAIN fs[PathE].sections["one"]
    /\ result.exc = ""
    /\ result = get(P0, "one", foo)
    /\ result # get(EParser, "one", foo)

\* C2: an option only the extension file defines reads, after the load, as
\* the typed value the extension file yields for it on its own.
C2_ExtensionAdditivity ==
    (/\ Got /\ ExtName = PathE
     /\ ~has_option(P0, asked[1], asked[2])
     /\ has_option(EParser, asked[1], asked[2]))
        => result = get(EParser, asked[1], asked[2])

\* C3: when extends names a path that is no existing file, Config(...) raises
\* IOError and no document is returned, whether the primary is a stream or an
\* existing file given by its path.
C3_MissingExtensionFatal ==
    (/\ pc # "start"
     /\ source.kind = "stream" \/ source.path \in DOMAIN fs
     /\ ExtName # None
     /\ ExtName \notin DOMAIN fs)
        => pc = "raised" /\ exc = "IOError" /\ config = NoConfig

\* C5: a ${HERE} value of the primary reads as the literal ${HERE} when the
\* primary came from a stream and as the directory of its file when it came
\* from a path; a ${HERE} value that comes from the extension file reads as
\* the directory of the extension file, wherever the primary came from.
C5_HereResolution ==
    Got =>
        /\ (/\ has_option(P0, asked[1], asked[2])
            /\ RawItems(P0, asked[1])[asked[2]] = T_here)
              => result = Return(Str(IF source.kind = "stream" THEN T_here
                                     ELSE <<"/", "p">>))
        /\ (/\ ~has_option(P0, asked[1], asked[2])
            /\ ExtName = PathE
            /\ has_option(EParser, asked[1], asked[2])
            /\ RawItems(EParser, asked[1])[asked[2]] = T_here)
              => result = Return(Str(<<"/", "d">>))

C5_Witness ==
    /\ Got /\ ExtName = PathE
    /\ source.kind = "stream"
    /\ asked[1] = "three" /\ asked[2] = foo
    /\ ~has_option(P0, "three", foo)
    /\ has_option(EParser, "three", foo)
    /\ RawItems(EParser, "three")[foo] = T_here
    /\ result = Return(Str(<<"/", "d">>))
    /\ has_option(P0, "one", foo)
    /\ RawItems(P0, "one")[foo] = T_here

\* C8: Config(path) with a path that names no existing file raises and
\* returns no document.
C8_MissingTargetFatal ==
    (pc # "start" /\ source.kind = "path" /\ source.path \notin DOMAIN fs)
        => pc = "raised"

\* C10: a multi-line extends naming two existing files loads and merges both,
\* so an option only the second file defines is in the result.
C10_MultipleExtensions ==
    (pc # "start" /\ ExtName = PathEF /\ PathE \in DOMAIN fs /\ PathF \in DOMAIN fs)
        => pc = "loaded" /\ has_option(config, "three", two)

---------------------------------------------------------------------------
(* The environment snapshot *)

\* raw with every ${F} replaced by v
RECURSIVE Substituted(_, _)
Substituted(raw, v) ==
    IF raw = <<>> THEN <<>>
    ELSE IF Len(raw) >= 4 /\ SubSeq(raw, 1, 4) = T_var
    THEN v \o Substituted(From(raw, 5), v)
    ELSE <<raw[1]>> \o Substituted(Tail(raw), v)

HasVar(raw) == \E i \in 1..(Len(raw) - 3) : SubSeq(raw, i, i + 3) = T_var

\* C4: with F set when the document is loaded, every later get of an option
\* whose raw text holds ${F} returns that text with F's load-time value
\* substituted, whatever was done to the environment after the load.
C4_EnvironmentSnapshot ==
    (Got /\ F \in DOMAIN loadenv) =>
        /\ (/\ has_option(P0, asked[1], asked[2])
            /\ HasVar(RawItems(P0, asked[1])[asked[2]]))
              => result = Return(Decode(Substituted(RawItems(P0, asked[1])[asked[2]],
                                                    loadenv[F])))
        /\ (/\ ~has_option(P0, asked[1], asked[2])
            /\ ExtName = PathE
            /\ has_option(EParser, asked[1], asked[2])
            /\ HasVar(RawItems(EParser, asked[1])[asked[2]]))
              => result = Return(Decode(Substituted(RawItems(EParser, asked[1])[asked[2]],
                                                    loadenv[F])))

C4_Witness ==
    /\ Got
    /\ asked[3] >= 1
    /\ F \notin DOMAIN os_environ
    /\ loadenv = Only(F, <<"s">>)
    /\ asked[1] = "one" /\ asked[2] = foo
    /\ RawItems(P0, "one")[foo] = T_env
    /\ result = Return(Str(<<"x", " ", "s">>))

---------------------------------------------------------------------------
(* The value codec *)

\* the raw text of the one option of the decoded document
RawFoo == source.doc.sections["one"][foo]

\* a get of a text that was read, not written
Read == Got /\ value = NoValue

\* the text is known after substitution: ${F} alone gives F's value, a text
\* without $ gives itself
KnownText == Read /\ (RawFoo = T_var \/ ~Contains(RawFoo, "$"))
SubstitutedText == IF RawFoo = T_var THEN loadenv[F] ELSE RawFoo

LooksNumeric(t) ==
    \/ t # <<>> /\ t[1] \in {Digits[i] : i \in 1..10}
    \/ Len(t) >= 2 /\ t[1] = "-" /\ t[2] \in {Digits[i] : i \in 1..10}

Quoted(t, minq) == Len(t) >= minq /\ t[1] = "\"" /\ t[Len(t)] = "\""

\* rules 1-4 and 6 of the decision table; minq is the least length the quote
\* rule asks for
TableScalar(text, minq) ==
    LET t == strip(text) IN
    IF LooksNumeric(t) THEN (IF IntParses(t) THEN IntV(IntOf(t)) ELSE Str(t))
    ELSE IF Quoted(t, minq) THEN Str(SubSeq(t, 2, Len(t) - 1))
    ELSE IF lower(t) = TrueText THEN BoolV(TRUE)
    ELSE IF lower(t) = FalseText THEN BoolV(FALSE)
    ELSE Str(t)

\* the table in the order the claim gives: rules 2-4 on the whole trimmed
\* text, then the list of the non-empty trimmed lines, then the text
TableInOrder(text) ==
    LET t == strip(text)
        lines == SelectSeq(split(t, "\n"), LAMBDA x : strip(x) # <<>>)
    IN IF LooksNumeric(t) \/ Quoted(t, 2) \/ lower(t) \in {TrueText, FalseText}
       THEN TableScalar(t, 2)
       ELSE IF Contains(t, "\n")
       THEN ListV([i \in 1..Len(lines) |-> TableScalar(lines[i], 2)])
       ELSE Str(t)

\* the table with the list rule first, on the untrimmed text, a quote rule
\* that takes a lone quote, and the elements that decode to '' left out
TableListFirst(text) ==
    LET lines == split(text, "\n")
        elems == [i \in 1..Len(lines) |-> TableScalar(lines[i], 1)]
    IN IF \E i \in 1..Len(text) : text[i] = "\n"
       THEN ListV(SelectSeq(elems, LAMBDA x : x # Str(<<>>)))
       ELSE TableScalar(text, 1)

\* C6 as stated: get returns what the decision table gives in the claim's
\* order, with a quote rule for texts of length >= 2 and a line "" kept as ''.
C6_DecodeTableInOrder ==
    KnownText => result = Return(TableInOrder(SubstitutedText))

\* C6, amended: get returns the list of the decoded lines, those decoding to
\* '' left out, when the substituted text holds a newline, and else the
\* trimmed text by the scalar rules, a lone double quote reading as ''.
C6_DecodeTable ==
    KnownText => result = Return(TableListFirst(SubstitutedText))

C6_Witness ==
    /\ KnownText
    /\ RawFoo = T_var
    /\ loadenv[F] = <<"1", "\n", "a">>
    /\ result = Return(ListV(<<IntV(1), Str(<<"a">>)>>))

\* a get of the text _serialize wrote for value
Written == Got /\ value # NoValue

\* a String that no decode rule changes
PlainString(s) ==
    /\ strip(s) = s
    /\ \A i \in 1..Len(s) : s[i] \notin {"\n", "$"}
    /\ ~(LooksNumeric(s) /\ IntParses(s))
    /\ ~Quoted(s, 1)
    /\ lower(s) \notin {TrueText, FalseText}

PlainScalar(v) == v.t \in {"int", "bool"} \/ (v.t = "str" /\ PlainString(v.s))

\* a list of at least least elements, each a scalar that is not ''
PlainList(v, least) ==
    /\ v.t = "list"
    /\ Len(v.l) >= least
    /\ \A i \in 1..Len(v.l) : PlainScalar(v.l[i]) /\ v.l[i] # Str(<<>>)

\* C7 as stated: an Integer, a Boolean, a String no decode rule changes, or a
\* list of one or more such scalars reads back, after _serialize, as itself.
C7_RoundTripAnyLength ==
    (Written /\ (PlainScalar(value) \/ PlainList(value, 1)))
        => result = Return(value)

\* C7, amended: an Integer, a Boolean, a String no decode rule changes, or a
\* list of two or more such scalars, none the empty String, reads back, after
\* _serialize, as itself.
C7_RoundTrip ==
    (Written /\ (PlainScalar(value) \/ PlainList(value, 2)))
        => result = Return(value)

C7_Witness ==
    /\ Written
    /\ value = ListV(<<IntV(0 - 12), Str(<<"a">>)>>)
    /\ RawItems(config, "one")[foo] = <<"-", "1", "2", "\n", " ", " ", " ", " ", "a">>
    /\ result = Return(value)

\* the text holds ${N} with an even number of $ right before it
RECURSIVE DollarsBefore(_, _)
DollarsBefore(raw, i) ==
    IF i > 1 /\ raw[i - 1] = "$" THEN 1 + DollarsBefore(raw, i - 1) ELSE 0

HasToken(raw) ==
    \E i \in 1..(Len(raw) - 3) :
        /\ SubSeq(raw, i, i + 3) = <<"$", "{", "N", "}">>
        /\ DollarsBefore(raw, i) % 2 = 0

=============================================================================
